---- MODULE Spec2Model ----
(***************************************************************************)
(* A model of go-filecoin's SortedCidSet (types/sorted_cid_set.go) and of  *)
(* the chain-state facade (ChainStateReadWriter): address resolution,      *)
(* actor and signature lookup, the head pointer, chain export and import,  *)
(* and chain randomness; and of the network randomizer's repository on     *)
(* disk (tools/network-randomizer/repo/fsrepo.go).                         *)
(***************************************************************************)
EXTENDS Integers, Sequences, FiniteSets, TLC

VARIABLES s, members, last, stateTrees, bstore, actors,
          head, calls, installed, source, archive, blocks, epochs,
          iter, nexts, mem, fs, repos

\* The state trees and the block store the facade reads.
chainVars == <<stateTrees, bstore, actors>>

\* The head pointer, the calls in flight, the chain and its archives.
nodeVars == <<head, calls, installed, source, archive, blocks, epochs>>

\* An iterator over a set and the number of Next calls made on it.
iterVars == <<iter, nexts>>

\* The array behind the set's slice and a value taken from the set.
memVars == <<mem>>

\* The repository directory and each process's FSRepo.
repoVars == <<fs, repos>>

vars ==
    <<s, members, last, chainVars, nodeVars, iterVars, memVars, repoVars>>

(***************************************************************************)
(* Bounds of the model.                                                    *)
(***************************************************************************)
MaxVersion == 1
MaxCodec == 1
MaxByte == 1
MaxHashLen == 1
MaxLen == 3
MaxTips == 3
MaxHead == 1
MaxKeys == 1
MaxID == 2
MaxMethod == 2
MaxProcs == 2
MaxEpoch == 3

(***************************************************************************)
(* Content identifiers: cid.Cid is (version, codec, multihash bytes).      *)
(***************************************************************************)
Bytes == 0..MaxByte

Hashes == UNION {[1..n -> Bytes] : n \in 1..MaxHashLen}

Cids == [version : 0..MaxVersion, codec : 0..MaxCodec, hash : Hashes]

\* Lists of at most MaxLen CIDs: the arguments of the variadic constructor
\* and the decoded arrays handed to the deserializers.
CidLists == UNION {[1..n -> Cids] : n \in 0..MaxLen}

Nil == "nil"

\* bytes.Compare: -1, 0 or +1 by lexicographic comparison of byte strings.
RECURSIVE BytesCompare(_, _)
BytesCompare(a, b) ==
    IF a = <<>> /\ b = <<>> THEN 0
    ELSE IF a = <<>> THEN -1
    ELSE IF b = <<>> THEN 1
    ELSE IF Head(a) < Head(b) THEN -1
    ELSE IF Head(a) > Head(b) THEN 1
    ELSE BytesCompare(Tail(a), Tail(b))

\* A comparison that orders by (version, codec, hash) lexicographically.
cidLessLexicographic(c1, c2) ==
    \/ c1.version < c2.version
    \/ c1.version = c2.version /\ c1.codec < c2.codec
    \/ c1.version = c2.version /\ c1.codec = c2.codec
         /\ BytesCompare(c1.hash, c2.hash) < 0

\* cidLess as written: the three comparisons joined by ||.
cidLess(c1, c2) ==
    \/ c1.version < c2.version
    \/ c1.codec < c2.codec
    \/ BytesCompare(c1.hash, c2.hash) < 0

\* (*cid.Cid).Equals: all three fields agree.
CidEquals(c1, c2) ==
    /\ c1.version = c2.version
    /\ c1.codec = c2.codec
    /\ BytesCompare(c1.hash, c2.hash) = 0

\* sort.Search(n, f) with f(i) = !cidLess(q[i], id); i and j are Go's
\* 0-based bounds, q is the slice s.s.
RECURSIVE SearchLoop(_, _, _, _)
SearchLoop(q, id, i, j) ==
    IF i < j
    THEN LET h == (i + j) \div 2
         IN  IF cidLess(q[h + 1], id)
             THEN SearchLoop(q, id, h + 1, j)
             ELSE SearchLoop(q, id, i, h)
    ELSE i

search(q, id) == SearchLoop(q, id, 0, Len(q))

\* The test shared by Add, Has and Remove.
FoundAt(q, id, idx) == idx < Len(q) /\ CidEquals(q[idx + 1], id)

Has(q, id) == FoundAt(q, id, search(q, id))

\* Add: the slice after the call and the returned bool.
AddSlice(q, id) ==
    LET idx == search(q, id)
    IN  IF FoundAt(q, id, idx) THEN q
        ELSE SubSeq(q, 1, idx) \o <<id>> \o SubSeq(q, idx + 1, Len(q))

AddRet(q, id) == ~FoundAt(q, id, search(q, id))

\* Remove: the slice after the call and the returned bool.
RemoveSlice(q, id) ==
    LET idx == search(q, id)
    IN  IF FoundAt(q, id, idx)
        THEN SubSeq(q, 1, idx) \o SubSeq(q, idx + 2, Len(q))
        ELSE q

RemoveRet(q, id) == FoundAt(q, id, search(q, id))

\* NewSortedCidSet(ids...): Add of every argument, in order, to an empty set.
RECURSIVE NewSortedCidSet(_)
NewSortedCidSet(ids) ==
    IF ids = <<>> THEN <<>>
    ELSE AddSlice(NewSortedCidSet(SubSeq(ids, 1, Len(ids) - 1)), ids[Len(ids)])

(***************************************************************************)
(* The iterator: a slice and a 0-based position.                           *)
(***************************************************************************)
Iter(q) == [s |-> q, i |-> 0]

Complete(it) == it.i >= Len(it.s)

IterNext(it) == IF it.i < Len(it.s) THEN [it EXCEPT !.i = it.i + 1] ELSE it

Value(it) == IF it.i < Len(it.s) THEN it.s[it.i + 1] ELSE Nil

\* Next: the position moves while an element is left; the result tells
\* whether the new position still holds an element.
NextRet(it) == IF it.i < Len(it.s) THEN it.i + 1 < Len(it.s) ELSE FALSE

\* ToSlice: out[i] = it.Value() for it := s.Iter(); !it.Complete(); it.Next().
RECURSIVE ToSliceLoop(_, _)
ToSliceLoop(it, out) ==
    IF Complete(it) THEN out
    ELSE ToSliceLoop(IterNext(it), Append(out, Value(it)))

ToSlice(q) == ToSliceLoop(Iter(q), <<>>)

(***************************************************************************)
(* The set's slice in memory: arr is the array behind s.s, as long as its  *)
(* capacity; the slice is the first len(s.s) cells.  A cell that was never *)
(* written holds a nil pointer.                                            *)
(***************************************************************************)
NilPtr == [version |-> 0 - 1, codec |-> 0 - 1, hash |-> <<>>]

NilCells(n) == [i \in 1..n |-> NilPtr]

\* append(s.s, nil): the next cell of the array when there is one, else a
\* new array of twice the capacity that starts with a copy of the slice.
AppendNil(arr, n) ==
    IF n < Len(arr)
    THEN [arr |-> [arr EXCEPT ![n + 1] = NilPtr], moved |-> FALSE]
    ELSE [arr |-> SubSeq(arr, 1, n) \o NilCells(IF n = 0 THEN 1 ELSE n),
          moved |-> TRUE]

\* Add on the array: append, copy(s.s[idx+1:], s.s[idx:]), s.s[idx] = id.
AddArray(arr, q, id) ==
    LET idx == search(q, id)
        n == Len(q)
        grown == AppendNil(arr, n)
    IN  IF FoundAt(q, id, idx) THEN [arr |-> arr, moved |-> FALSE]
        ELSE [arr |-> [i \in 1..Len(grown.arr) |->
                          IF i = idx + 1 THEN id
                          ELSE IF idx + 1 < i /\ i <= n + 1
                               THEN grown.arr[i - 1]
                               ELSE grown.arr[i]],
              moved |-> grown.moved]

\* Remove on the array: copy(s.s[idx:], s.s[idx+1:]) moves the tail down one
\* cell; the cell the slice gives up keeps what it held.
RemoveArray(arr, q, id) ==
    LET idx == search(q, id)
        n == Len(q)
    IN  IF FoundAt(q, id, idx)
        THEN [i \in 1..Len(arr) |->
                 IF idx < i /\ i < n THEN arr[i + 1] ELSE arr[i]]
        ELSE arr

\* A value taken from the set: an iterator or a copy of the struct holds the
\* slice header and so the set's array; ToSlice fills an array of its own.
\* own is the value's array once it is no longer the set's; taken is what
\* the set held when the value was taken.
NoValue ==
    [kind |-> "none", shared |-> FALSE, own |-> <<>>, len |-> 0,
     taken |-> <<>>]

IterValue(q) ==
    [kind |-> "Iter", shared |-> TRUE, own |-> <<>>, len |-> Len(q),
     taken |-> q]

CopyValue(q) ==
    [kind |-> "copy", shared |-> TRUE, own |-> <<>>, len |-> Len(q),
     taken |-> q]

ToSliceValue(q) ==
    [kind |-> "ToSlice", shared |-> FALSE, own |-> ToSlice(q),
     len |-> Len(q), taken |-> q]

\* What the value yields now: the first len cells of the array it holds.
Yields(m) == SubSeq(IF m.val.shared THEN m.arr ELSE m.val.own, 1, m.val.len)

\* The value after the set's array became arr: a value that shared the old
\* array keeps it when the set moved to a new one.
Follow(m, moved) ==
    IF m.val.shared /\ moved
    THEN [m.val EXCEPT !.shared = FALSE, !.own = m.arr]
    ELSE m.val

\* Equals: equal lengths, then Len comparisons of i1.Value() with i2.Value();
\* the loop body advances neither iterator.
RECURSIVE EqualsLoop(_, _, _, _)
EqualsLoop(i1, i2, i, n) ==
    IF i < n
    THEN IF ~CidEquals(Value(i1), Value(i2)) THEN FALSE
         ELSE EqualsLoop(i1, i2, i + 1, n)
    ELSE TRUE

Equals(q, q2) ==
    IF Len(q) # Len(q2) THEN FALSE
    ELSE EqualsLoop(Iter(q), Iter(q2), 0, Len(q))

(***************************************************************************)
(* Serialization.  A CID travels as its bytes (version, codec, hash); a    *)
(* set travels as the array of its CIDs.                                   *)
(***************************************************************************)
CidBytes(c) == <<c.version, c.codec>> \o c.hash

CidFromBytes(b) ==
    [version |-> b[1], codec |-> b[2], hash |-> SubSeq(b, 3, Len(b))]

EncodeCids(q) == [i \in 1..Len(q) |-> CidBytes(q[i])]

DecodeCids(w) == [i \in 1..Len(w) |-> CidFromBytes(w[i])]

\* The loop of both deserializers: for i := 0; i < len(ts)-1; i++, fail at
\* the first i with !cidLess(ts[i], ts[i+1]).  TRUE when no i fails.
RECURSIVE SortedCheckLoop(_, _)
SortedCheckLoop(ts, i) ==
    IF i < Len(ts) - 1
    THEN IF ~cidLess(ts[i + 1], ts[i + 2]) THEN FALSE
         ELSE SortedCheckLoop(ts, i + 1)
    ELSE TRUE

\* The CBOR transform pair registered by init().
TransformMarshal(q) == q

TransformUnmarshal(ts) ==
    IF SortedCheckLoop(ts, 0)
    THEN [err |-> Nil, set |-> ts]
    ELSE [err |-> "invalid serialization of SortedCidSet", set |-> <<>>]

MarshalJSON(q) == EncodeCids(q)

\* UnmarshalJSON on a receiver holding recv: the receiver's slice afterwards.
UnmarshalJSON(recv, b) ==
    LET ts == DecodeCids(b)
    IN  IF SortedCheckLoop(ts, 0)
        THEN [err |-> Nil, set |-> ts]
        ELSE [err |-> "invalid input - cids not sorted", set |-> recv]

(***************************************************************************)
(* The chain-state facade.  The chain store gives each tipset key a state  *)
(* tree or fails to load one; the block store holds the head state of the  *)
(* init actor, which maps addresses to ID addresses.                       *)
(***************************************************************************)
TipKeys == 1..MaxTips

HeadCids == 1..MaxHead

IDAddress(n) == [protocol |-> "ID", payload |-> n]

KeyAddress(n) == [protocol |-> "SECP256K1", payload |-> n]

IDAddresses == {IDAddress(n) : n \in 1..MaxID}

Addresses == IDAddresses \cup {KeyAddress(n) : n \in 1..MaxKeys}

Undef == [protocol |-> "Undef", payload |-> 0]

\* What GetTipSetState and the tree's GetActor(InitActorAddr) give for a
\* tipset: no state, a tree that cannot be read, a tree without the init
\* actor, or a tree whose init actor has the head h.
StateErr == [kind |-> "StateErr"]

ReadErr == [kind |-> "ReadErr"]

NoActor == [kind |-> "NoActor"]

TreeValues == {StateErr, ReadErr, NoActor} \cup [kind : {"Actor"}, head : HeadCids]

\* What the block store gives for a head: nothing, bytes that do not decode
\* to an init actor state, or the state's address map.
NotFound == [kind |-> "NotFound"]

Garbage == [kind |-> "Garbage"]

KeyAddresses == {KeyAddress(n) : n \in 1..MaxKeys}

\* An address map gives an actor ID to some of the key addresses.
AddressMaps == UNION {[K -> 1..MaxID] : K \in SUBSET KeyAddresses}

InitStates == [kind : {"State"}, addressMap : AddressMaps]

BlockValues == {NotFound, Garbage} \cup InitStates

\* errors.Wrap and errors.Wrapf: nil when the wrapped error is nil.
Wrap(err, msg) == IF err = Nil THEN Nil ELSE msg \o ": " \o err

\* initactor.State.ResolveAddress: an ID address is returned as it is; any
\* other address is looked up in the address map.
StateResolveAddress(state, addr) ==
    IF addr.protocol = "ID" THEN [addr |-> addr, err |-> Nil]
    ELSE IF addr \in DOMAIN state.addressMap
         THEN [addr |-> IDAddress(state.addressMap[addr]), err |-> Nil]
         ELSE [addr |-> Undef, err |-> "actor not found"]

\* ResolveAddressAt: the returned address and error, and the reads made on
\* the way, in order.
ResolveAddressAt(trees, store, tipKey, addr) ==
    LET st == trees[tipKey]
    IN  IF st.kind = "StateErr"
        THEN [addr |-> Undef,
              err |-> Wrap("state not found", "failed to load latest state"),
              reads |-> <<"GetTipSetState">>]
        ELSE IF st.kind = "ReadErr"
        THEN [addr |-> Undef, err |-> "tree read failed",
              reads |-> <<"GetTipSetState", "GetActor">>]
        ELSE IF st.kind = "NoActor"
        THEN [addr |-> Undef, err |-> Wrap(Nil, "no actor at address"),
              reads |-> <<"GetTipSetState", "GetActor">>]
        ELSE LET blk == store[st.head]
             IN  IF blk.kind = "NotFound"
                 THEN [addr |-> Undef, err |-> "blockstore: block not found",
                       reads |-> <<"GetTipSetState", "GetActor", "bstore.Get">>]
                 ELSE IF blk.kind = "Garbage"
                 THEN [addr |-> Undef, err |-> "decode failed",
                       reads |-> <<"GetTipSetState", "GetActor", "bstore.Get",
                                   "Decode">>]
                 ELSE LET r == StateResolveAddress(blk, addr)
                      IN  [addr |-> r.addr, err |-> r.err,
                           reads |-> <<"GetTipSetState", "GetActor",
                                       "bstore.Get", "Decode",
                                       "ResolveAddress">>]

(***************************************************************************)
(* Actors.  Besides the init actor a state tree holds actor records under  *)
(* ID addresses; an actor that only received value has no code.            *)
(***************************************************************************)
UndefCode == "undef"

ActorCodes == {UndefCode, "account"}

ActorValues == {NoActor} \cup [kind : {"Actor"}, code : ActorCodes]

ActorTables == [IDAddresses -> ActorValues]

NilActor == [kind |-> "nil"]

ErrNotFound == "not found"

\* vmstate.Tree.GetActor on a loaded tree: the record stored under idAddr.
TreeGetActor(st, table, idAddr) ==
    IF st.kind = "ReadErr"
    THEN [actor |-> NilActor, found |-> FALSE, err |-> "tree read failed"]
    ELSE IF idAddr \in DOMAIN table /\ table[idAddr] # NoActor
    THEN [actor |-> table[idAddr], found |-> TRUE, err |-> Nil]
    ELSE [actor |-> NilActor, found |-> FALSE, err |-> Nil]

GetActorAt(trees, store, acts, tipKey, addr) ==
    LET st == trees[tipKey]
    IN  IF st.kind = "StateErr"
        THEN [actor |-> NilActor,
              err |-> Wrap("state not found", "failed to load latest state")]
        ELSE LET r == ResolveAddressAt(trees, store, tipKey, addr)
             IN  IF r.err # Nil
                 THEN [actor |-> NilActor, err |-> r.err]
                 ELSE LET g == TreeGetActor(st, acts[tipKey], r.addr)
                      IN  IF g.err # Nil
                          THEN [actor |-> NilActor, err |-> g.err]
                          ELSE IF ~g.found
                          THEN [actor |-> NilActor, err |-> ErrNotFound]
                          ELSE [actor |-> g.actor, err |-> Nil]

\* GetActor: GetActorAt on the head of the chain store.
GetActor(trees, store, acts, hd, addr) ==
    GetActorAt(trees, store, acts, hd, addr)

\* vmstate.Tree.GetAllActors on a loaded tree: the init actor's record and
\* every record of the table, each under its ID address.
GetAllActors(st, table) ==
    [init |-> st,
     others |-> {<<a, table[a]>> :
                    a \in {i \in DOMAIN table : table[i] # NoActor}}]

NoActors == [init |-> StateErr, others |-> {}]

\* LsActors: the actors of the tree loaded for hd, the head it read.
LsActors(trees, acts, hd) ==
    IF trees[hd].kind = "StateErr"
    THEN [out |-> NoActors, err |-> "state not found"]
    ELSE [out |-> GetAllActors(trees[hd], acts[hd]), err |-> Nil]

\* A step of a call that re-reads the head instead of using tipKey.
HeadReread(call, cur) == cur

\* tipKey in the steps of a call: the parameter of GetActorAt, and in
\* LsActors the argument of GetTipSetState, bound once to what GetHead
\* returned.  cur is the head at the time of the step.
TipKeyOf(call, cur) == call.key

\* actor.Empty: the actor has no code.
Empty(actr) == actr.code = UndefCode

MethodSend == 0

Methods == 0..MaxMethod

ErrNoMethod == "no method"

ErrNoActorImpl == "no actor implementation"

NilSignature == [kind |-> "nil"]

\* What the actor-code registry answers during one call: whether
\* GetActorImpl fails for the actor's code and whether the implementation's
\* Signature fails for the method.
LoaderAnswers == [implErr : BOOLEAN, sigErr : BOOLEAN]

NotFetched == [actor |-> NilActor, err |-> "not fetched"]

\* A GetActorSignature that asks the registry before it looks at the
\* actor's code.
SignatureRegistryFirst(trees, store, acts, hd, actorAddr, method, loader) ==
    IF method = MethodSend
    THEN [sig |-> NilSignature, err |-> ErrNoMethod, reads |-> <<>>,
          got |-> NotFetched]
    ELSE LET a == GetActor(trees, store, acts, hd, actorAddr)
         IN  IF a.err # Nil
             THEN [sig |-> NilSignature,
                   err |-> Wrap(a.err, "failed to get actor"),
                   reads |-> <<"GetActor">>, got |-> a]
             ELSE IF loader.implErr
             THEN [sig |-> NilSignature,
                   err |-> Wrap("actor code not found",
                                "failed to load actor code"),
                   reads |-> <<"GetActor", "GetActorImpl">>, got |-> a]
             ELSE IF loader.sigErr
             THEN [sig |-> NilSignature,
                   err |-> "missing export: " \o ToString(method),
                   reads |-> <<"GetActor", "GetActorImpl", "Signature">>,
                   got |-> a]
             ELSE IF Empty(a.actor)
             THEN [sig |-> NilSignature, err |-> ErrNoActorImpl,
                   reads |-> <<"GetActor">>, got |-> a]
             ELSE [sig |-> [kind |-> "Signature", code |-> a.actor.code,
                            method |-> method],
                   err |-> Nil,
                   reads |-> <<"GetActor", "GetActorImpl", "Signature">>,
                   got |-> a]

\* GetActorSignature: the signature and error, the reads made in order, and
\* what GetActor gave.
GetActorSignature(trees, store, acts, hd, actorAddr, method, loader) ==
    IF method = MethodSend
    THEN [sig |-> NilSignature, err |-> ErrNoMethod, reads |-> <<>>,
          got |-> NotFetched]
    ELSE LET a == GetActor(trees, store, acts, hd, actorAddr)
         IN  IF a.err # Nil
             THEN [sig |-> NilSignature,
                   err |-> Wrap(a.err, "failed to get actor"),
                   reads |-> <<"GetActor">>, got |-> a]
             ELSE IF Empty(a.actor)
             THEN [sig |-> NilSignature, err |-> ErrNoActorImpl,
                   reads |-> <<"GetActor">>, got |-> a]
             ELSE IF loader.implErr
             THEN [sig |-> NilSignature,
                   err |-> Wrap("actor code not found",
                                "failed to load actor code"),
                   reads |-> <<"GetActor", "GetActorImpl">>, got |-> a]
             ELSE IF loader.sigErr
             THEN [sig |-> NilSignature,
                   err |-> "missing export: " \o ToString(method),
                   reads |-> <<"GetActor", "GetActorImpl", "Signature">>,
                   got |-> a]
             ELSE [sig |-> [kind |-> "Signature", code |-> a.actor.code,
                            method |-> method],
                   err |-> Nil,
                   reads |-> <<"GetActor", "GetActorImpl", "Signature">>,
                   got |-> a]

(***************************************************************************)
(* The chain.  Tipset k has one block, Block(k), whose parent is           *)
(* Block(k - 1); tipset 1 is the genesis.  A block names its messages, its *)
(* receipts and its state root; the state trees share nodes, and every     *)
(* other tipset shares its message and receipt collections.                *)
(***************************************************************************)
UndefTipSetKey == 0

Block(k) == [kind |-> "block", n |-> k]

MessagesOf(k) == [kind |-> "messages", n |-> k % 2]

ReceiptsOf(k) == [kind |-> "receipts", n |-> k % 2]

StateRoot(k) == [kind |-> "state", n |-> k]

StateLinks(c) == IF c.n > 1 THEN {[kind |-> "state", n |-> c.n - 1]} ELSE {}

\* The content identifiers an object refers to.
Links(c) ==
    IF c.kind = "block"
    THEN {MessagesOf(c.n), ReceiptsOf(c.n), StateRoot(c.n)}
             \cup (IF c.n > 1 THEN {Block(c.n - 1)} ELSE {})
    ELSE IF c.kind = "state" THEN StateLinks(c)
    ELSE {}

Objects ==
    {Block(k) : k \in TipKeys} \cup {MessagesOf(k) : k \in TipKeys}
        \cup {ReceiptsOf(k) : k \in TipKeys} \cup {StateRoot(k) : k \in TipKeys}

\* Every object of the chain up to tipset m.
ChainObjects(m) ==
    {Block(k) : k \in 1..m} \cup {MessagesOf(k) : k \in 1..m}
        \cup {ReceiptsOf(k) : k \in 1..m} \cup {StateRoot(k) : k \in 1..m}

\* The chain index over a store: a tipset is known when its block is held.
GetTipSet(store, key) ==
    IF key \in TipKeys /\ Block(key) \in store
    THEN [ts |-> key, err |-> Nil]
    ELSE [ts |-> UndefTipSetKey, err |-> "tipset not found"]

\* The chain index's SetHead: the pointer is replaced in one step, or the
\* write fails and the pointer stays.
StoreSetHead(hd, ts, ok) ==
    IF ok THEN [head |-> ts, err |-> Nil]
    ELSE [head |-> hd, err |-> "failed to write head"]

GetGenesisBlock(store) ==
    IF Block(1) \in store
    THEN [blk |-> Block(1), err |-> Nil]
    ELSE [blk |-> Block(1), err |-> "genesis block not found"]

(***************************************************************************)
(* Chain export and import.                                                *)
(***************************************************************************)
\* ChainStateTree: every node reachable from the state root c, root first.
RECURSIVE ChainStateTree(_, _)
ChainStateTree(store, c) ==
    IF c \notin store
    THEN [nodes |-> <<>>, err |-> "merkledag: not found"]
    ELSE IF StateLinks(c) = {}
    THEN [nodes |-> <<c>>, err |-> Nil]
    ELSE LET r == ChainStateTree(store, CHOOSE x \in StateLinks(c) : TRUE)
         IN  IF r.err # Nil THEN r
             ELSE [nodes |-> <<c>> \o r.nodes, err |-> Nil]

InSeq(x, q) == \E i \in 1..Len(q) : q[i] = x

\* The export's write filter: an object already written is skipped.
RECURSIVE WriteOnce(_, _)
WriteOnce(written, items) ==
    IF items = <<>> THEN written
    ELSE IF InSeq(Head(items), written)
    THEN WriteOnce(written, Tail(items))
    ELSE WriteOnce(Append(written, Head(items)), Tail(items))

IncompleteChain == "IncompleteChain"

\* The walk from tipset k to the genesis: the blocks of each tipset, the
\* nodes under its state root, its messages and its receipts.
RECURSIVE ExportWalk(_, _, _)
ExportWalk(k, written, store) ==
    IF k = 0 THEN [err |-> Nil, objs |-> written]
    ELSE IF Block(k) \notin store
    THEN [err |-> IncompleteChain, objs |-> written]
    ELSE LET w1 == WriteOnce(written, <<Block(k)>>)
             tree == ChainStateTree(store, StateRoot(k))
         IN  IF tree.err # Nil
             THEN [err |-> IncompleteChain, objs |-> w1]
             ELSE LET w2 == WriteOnce(w1, tree.nodes)
                  IN  IF MessagesOf(k) \notin store
                      THEN [err |-> IncompleteChain, objs |-> w2]
                      ELSE LET w3 == WriteOnce(w2, <<MessagesOf(k)>>)
                           IN  IF ReceiptsOf(k) \notin store
                               THEN [err |-> IncompleteChain, objs |-> w3]
                               ELSE ExportWalk(k - 1,
                                        WriteOnce(w3, <<ReceiptsOf(k)>>),
                                        store)

\* An archive: the header's root and the objects that follow it.  Nothing
\* written is an archive without a header.
NoArchive == [root |-> UndefTipSetKey, objs |-> <<>>]

\* chain.Export: the header names the head, the walk writes the objects.
Export(headTS, store) ==
    LET w == ExportWalk(headTS, <<>>, store)
    IN  [err |-> w.err, car |-> [root |-> headTS, objs |-> w.objs]]

\* A ChainExport that returns nil whatever the export returned.
ChainExportIgnoringError(store, headKey) ==
    LET t == GetTipSet(store, headKey)
    IN  IF t.err # Nil THEN [err |-> t.err, car |-> NoArchive]
        ELSE [err |-> Nil, car |-> Export(t.ts, store).car]

ChainExport(store, headKey) ==
    LET t == GetTipSet(store, headKey)
    IN  IF t.err # Nil THEN [err |-> t.err, car |-> NoArchive]
        ELSE LET e == Export(t.ts, store)
             IN  IF e.err # Nil THEN [err |-> e.err, car |-> e.car]
                 ELSE [err |-> Nil, car |-> e.car]

\* A Put that drops the block.
CarStorePutNothing(store, b) == store

\* carStore.Put: the block goes into the block store.
CarStorePut(store, b) == store \cup {b}

RECURSIVE PutAll(_, _)
PutAll(store, objs) ==
    IF objs = <<>> THEN store
    ELSE PutAll(CarStorePut(store, Head(objs)), Tail(objs))

\* chain.Import: the header gives the root, every object is put, and the
\* root's ancestors down to the genesis must then be held.
Import(store, in) ==
    IF in.root = UndefTipSetKey
    THEN [key |-> UndefTipSetKey, err |-> "CorruptArchive", store |-> store]
    ELSE LET after == PutAll(store, in.objs)
         IN  IF \A j \in 1..in.root : Block(j) \in after
             THEN [key |-> in.root, err |-> Nil, store |-> after]
             ELSE [key |-> in.root, err |-> "DisconnectedChain",
                   store |-> after]

ChainImport(store, in) ==
    LET r == Import(store, in)
    IN  IF r.err # Nil
        THEN [key |-> UndefTipSetKey, err |-> r.err, store |-> r.store]
        ELSE [key |-> r.key, err |-> Nil, store |-> r.store]

(***************************************************************************)
(* Chain randomness.                                                       *)
(***************************************************************************)
\* The epochs of the tipsets: the genesis is at epoch 0 and epochs grow
\* along the chain, with gaps where rounds produced no block.
EpochMaps ==
    {e \in [TipKeys -> 0..MaxEpoch] :
        /\ e[1] = 0
        /\ \A j \in TipKeys, k \in TipKeys : j < k => e[j] < e[k]}

SampleEpochs == (0 - 1)..MaxEpoch

Tags == {"ticket", "election"}

Entropies == {<<>>, <<1>>}

Ticket(k) == [kind |-> "ticket", of |-> k]

NilTicket == [kind |-> "nil"]

NilRandomness == [kind |-> "nil"]

\* The backward walk from tipset k to the latest tipset at or before epoch.
RECURSIVE FindTipsetAtEpoch(_, _, _, _)
FindTipsetAtEpoch(store, eps, k, epoch) ==
    IF k = 0 THEN [ts |-> UndefTipSetKey, err |-> "EpochBeforeGenesis"]
    ELSE IF Block(k) \notin store
    THEN [ts |-> UndefTipSetKey, err |-> "tipset not found"]
    ELSE IF eps[k] <= epoch THEN [ts |-> k, err |-> Nil]
    ELSE FindTipsetAtEpoch(store, eps, k - 1, epoch)

\* The sampler made by chain.NewRandomnessSamplerAtHead, asked for epoch.
SampleTicket(store, eps, genesisTicket, hd, epoch) ==
    LET start == GetTipSet(store, hd)
    IN  IF start.err # Nil THEN [ticket |-> NilTicket, err |-> start.err]
        ELSE LET tip == FindTipsetAtEpoch(store, eps, start.ts, epoch)
             IN  IF tip.err # Nil
                 THEN [ticket |-> NilTicket, err |-> tip.err]
                 ELSE [ticket |-> Ticket(tip.ts), err |-> Nil]

\* crypto.ChainRandomnessSource.Randomness: the ticket, the tag, the epoch
\* and the entropy go through a one-way mixing function.
Randomness(sample, tag, epoch, entropy) ==
    IF sample.err # Nil THEN [rand |-> NilRandomness, err |-> sample.err]
    ELSE [rand |-> [kind |-> "Randomness", ticket |-> sample.ticket,
                    tag |-> tag, epoch |-> epoch, entropy |-> entropy],
          err |-> Nil]

\* A sample that takes the ticket of the reference tipset, whatever the
\* epoch.
SampleReferenceTicket(store, eps, cur, hd, tag, epoch, entropy) ==
    LET gen == GetGenesisBlock(store)
        start == GetTipSet(store, hd)
    IN  IF gen.err # Nil THEN [rand |-> NilRandomness, err |-> gen.err]
        ELSE IF start.err # Nil
        THEN [rand |-> NilRandomness, err |-> start.err]
        ELSE IF epoch < 0
        THEN [rand |-> NilRandomness, err |-> "EpochBeforeGenesis"]
        ELSE Randomness([ticket |-> Ticket(start.ts), err |-> Nil],
                        tag, epoch, entropy)

\* A sample that falls back on the genesis ticket when the sampler fails.
SampleGenesisFallback(store, eps, cur, hd, tag, epoch, entropy) ==
    LET gen == GetGenesisBlock(store)
        smp == SampleTicket(store, eps, Ticket(gen.blk.n), hd, epoch)
    IN  IF gen.err # Nil THEN [rand |-> NilRandomness, err |-> gen.err]
        ELSE IF smp.err # Nil
        THEN Randomness([ticket |-> Ticket(gen.blk.n), err |-> Nil],
                        tag, epoch, entropy)
        ELSE Randomness(smp, tag, epoch, entropy)

\* A sample taken from the current head instead of the reference key.
SampleCurrentHead(store, eps, cur, hd, tag, epoch, entropy) ==
    LET gen == GetGenesisBlock(store)
    IN  IF gen.err # Nil THEN [rand |-> NilRandomness, err |-> gen.err]
        ELSE Randomness(SampleTicket(store, eps, Ticket(gen.blk.n), cur,
                                     epoch),
                        tag, epoch, entropy)

\* SampleChainRandomness on a facade whose chain store holds store, eps and
\* the current head cur.
SampleChainRandomness(store, eps, cur, hd, tag, epoch, entropy) ==
    LET gen == GetGenesisBlock(store)
    IN  IF gen.err # Nil THEN [rand |-> NilRandomness, err |-> gen.err]
        ELSE Randomness(SampleTicket(store, eps, Ticket(gen.blk.n), hd, epoch),
                        tag, epoch, entropy)

Procs == 1..MaxProcs

(***************************************************************************)
(* The repository directory.  dir tells what is at the repo path; a        *)
(* directory has owner read and write permission or not (writable), holds  *)
(* the version file, the config file, the temporary config file and the    *)
(* API file or not, and may hold a file of another origin (other).  lock   *)
(* is the holder of repo.lock and ds the holder of the datastore.          *)
(***************************************************************************)
DatastoreTypes == {"badgerds", "unknown"}

Configs == [kind : {"config"}, type : DatastoreTypes, name : {"a", "b"}]

NilConfig == [kind |-> "nil"]

NoFile == [kind |-> "none"]

GarbageFile == [kind |-> "garbage"]

ConfigFiles == {NoFile, GarbageFile} \cup Configs

\* The version file: absent, not a number, or a version below, at or above
\* the Version of the binary.
VersionFiles == {"none", "corrupt", "older", "current", "newer"}

\* Nobody holds the resource; or a holder nobody refers to any more.
Free == 0

Leaked == MaxProcs + 1

\* What a write to a file can do: succeed, fail before the file exists, or
\* fail with part of the file written.
WriteResults == {"ok", "none", "partial"}

NoDisk ==
    [dir |-> "absent", writable |-> FALSE, other |-> FALSE,
     version |-> "none", config |-> NoFile, temp |-> NoFile, api |-> FALSE,
     lock |-> Free, ds |-> Free]

\* ensureWritableDirectory: Mkdir, and when something is there already it
\* has to be a directory with mode bits 0600.
ensureWritableDirectory(disk) ==
    IF disk.dir = "absent"
    THEN [fs |-> [disk EXCEPT !.dir = "dir", !.writable = TRUE], err |-> Nil]
    ELSE IF disk.dir = "unreachable"
    THEN [fs |-> disk, err |-> "failed to create directory"]
    ELSE IF disk.dir # "dir"
    THEN [fs |-> disk, err |-> "not a directory"]
    ELSE IF ~disk.writable
    THEN [fs |-> disk, err |-> "insufficient permissions"]
    ELSE [fs |-> disk, err |-> Nil]

\* isEmptyDir: the directory has no entry.
isEmptyDir(disk) ==
    /\ disk.version = "none"
    /\ disk.config = NoFile
    /\ disk.temp = NoFile
    /\ ~disk.api
    /\ ~disk.other

\* WriteVersion: ioutil.WriteFile of the binary's Version.
WriteVersion(disk, wv) ==
    IF wv = "ok" THEN [fs |-> [disk EXCEPT !.version = "current"], err |-> Nil]
    ELSE IF wv = "partial"
    THEN [fs |-> [disk EXCEPT !.version = "corrupt"], err |-> "write failed"]
    ELSE [fs |-> disk, err |-> "write failed"]

fileExists(file) == file # NoFile

\* cfg.WriteFile on the file that holds old.
WriteFile(old, cfg, w) ==
    IF w = "ok" THEN [file |-> cfg, err |-> Nil]
    ELSE IF w = "partial" THEN [file |-> GarbageFile, err |-> "write failed"]
    ELSE [file |-> old, err |-> "write failed"]

initConfig(disk, cfg, wc) ==
    IF fileExists(disk.config)
    THEN [fs |-> disk, err |-> "file already exists"]
    ELSE LET w == WriteFile(disk.config, cfg, wc)
         IN  [fs |-> [disk EXCEPT !.config = w.file], err |-> w.err]

\* InitFSRepo without the test for an empty directory.
InitFSRepoAnyDirectory(disk, cfg, wv, wc) ==
    LET d == ensureWritableDirectory(disk)
    IN  IF d.err # Nil
        THEN [fs |-> d.fs, err |-> Wrap(d.err, "no writable directory")]
        ELSE LET v == WriteVersion(d.fs, wv)
             IN  IF v.err # Nil
                 THEN [fs |-> v.fs,
                       err |-> Wrap(v.err, "initializing repo version failed")]
                 ELSE LET c == initConfig(v.fs, cfg, wc)
                      IN  [fs |-> c.fs,
                           err |-> Wrap(c.err,
                                        "initializing config file failed")]

ErrNonEmpty == "refusing to initialize repo in non-empty directory"

InitFSRepo(disk, cfg, wv, wc) ==
    LET d == ensureWritableDirectory(disk)
    IN  IF d.err # Nil
        THEN [fs |-> d.fs, err |-> Wrap(d.err, "no writable directory")]
        ELSE IF ~isEmptyDir(d.fs)
        THEN [fs |-> d.fs, err |-> ErrNonEmpty]
        ELSE LET v == WriteVersion(d.fs, wv)
             IN  IF v.err # Nil
                 THEN [fs |-> v.fs,
                       err |-> Wrap(v.err, "initializing repo version failed")]
                 ELSE LET c == initConfig(v.fs, cfg, wc)
                      IN  [fs |-> c.fs,
                           err |-> Wrap(c.err,
                                        "initializing config file failed")]

\* hasConfig: Lstat of the config file finds it, finds nothing, or fails.
hasConfig(disk, statOk) ==
    IF ~statOk THEN [has |-> FALSE, err |-> "lstat failed"]
    ELSE [has |-> disk.dir = "dir" /\ disk.config # NoFile, err |-> Nil]

ErrRepoLock == "failed to take repo lock"

ErrLockHeld == "lock is already held"

\* A lock that is handed out whoever holds it.
LockShared(holder, p) == [holder |-> p, err |-> Nil]

\* lockfile.Lock: the lock is taken unless somebody holds it.
Lock(holder, p) ==
    IF holder = Free THEN [holder |-> p, err |-> Nil]
    ELSE [holder |-> holder, err |-> ErrLockHeld]

\* loadVersion: the version file is read and parsed.
loadVersion(disk) ==
    IF disk.version = "none"
    THEN [version |-> "none", err |-> "no such file"]
    ELSE IF disk.version = "corrupt"
    THEN [version |-> "none", err |-> "corrupt version file"]
    ELSE [version |-> disk.version, err |-> Nil]

\* loadConfig: config.ReadFile of the config file.
loadConfig(disk) ==
    IF disk.config \in Configs THEN [cfg |-> disk.config, err |-> Nil]
    ELSE [cfg |-> NilConfig, err |-> "failed to read config file"]

\* openDatastore: a badger datastore is opened unless the config names
\* another type; badger refuses a directory another datastore holds.
openDatastore(disk, cfg, p, dsOk) ==
    IF cfg.type # "badgerds"
    THEN [ds |-> disk.ds, err |-> "unknown datastore type in config"]
    ELSE IF disk.ds # Free \/ ~dsOk
    THEN [ds |-> disk.ds, err |-> "cannot open datastore"]
    ELSE [ds |-> p, err |-> Nil]

\* openKeystore: keystore.NewFSKeystore succeeds or fails.
openKeystore(ksOk) == IF ksOk THEN Nil ELSE "cannot open keystore"

\* loadFromDisk for the FSRepo of p: the error, whether the call panicked,
\* the config it loaded and the holder of the datastore afterwards.
loadFromDisk(disk, p, dsOk, ksOk) ==
    LET v == loadVersion(disk)
        c == loadConfig(disk)
        d == openDatastore(disk, c.cfg, p, dsOk)
        k == openKeystore(ksOk)
        stop(e, cfg, ds) == [err |-> e, panic |-> FALSE, cfg |-> cfg, ds |-> ds]
    IN  IF v.err # Nil
        THEN stop(Wrap(v.err, "failed to load version"), NilConfig, disk.ds)
        ELSE IF v.version = "older"
        THEN [err |-> Nil, panic |-> TRUE, cfg |-> NilConfig, ds |-> disk.ds]
        ELSE IF v.version = "newer"
        THEN stop("binary needs update to handle repo version", NilConfig,
                  disk.ds)
        ELSE IF c.err # Nil
        THEN stop(Wrap(c.err, "failed to load config file"), NilConfig,
                  disk.ds)
        ELSE IF d.err # Nil
        THEN stop(Wrap(d.err, "failed to open datastore"), c.cfg, d.ds)
        ELSE IF k # Nil
        THEN stop(Wrap(k, "failed to open keystore"), c.cfg, d.ds)
        ELSE stop(Nil, c.cfg, d.ds)

\* Config: the config the FSRepo holds in memory.
Config(r) == r.cfg

\* ReplaceConfig on the FSRepo r: r.cfg is set, the temporary file is
\* removed and written, and renamed to the config file.
ReplaceConfig(disk, r, cfg, rmOk, wr, mvOk) ==
    LET r1 == [r EXCEPT !.cfg = cfg]
        w == WriteFile(NoFile, cfg, wr)
    IN  IF ~rmOk
        THEN [fs |-> disk, repo |-> r1, err |-> "remove failed"]
        ELSE IF w.err # Nil
        THEN [fs |-> [disk EXCEPT !.temp = w.file], repo |-> r1,
              err |-> w.err]
        ELSE IF ~mvOk
        THEN [fs |-> [disk EXCEPT !.temp = w.file], repo |-> r1,
              err |-> "rename failed"]
        ELSE [fs |-> [disk EXCEPT !.temp = NoFile, !.config = w.file],
              repo |-> r1, err |-> Nil]

\* removeAPIFile: os.Remove, where a file that is not there is no error.
removeAPIFile(disk, rmOk) ==
    IF ~disk.api THEN [fs |-> disk, err |-> Nil]
    ELSE IF rmOk THEN [fs |-> [disk EXCEPT !.api = FALSE], err |-> Nil]
    ELSE [fs |-> disk, err |-> "remove failed"]

\* SetAPIAddr: the API file is created and written; when the write fails
\* the file is removed again.
SetAPIAddr(disk, createOk, writeOk, rmOk) ==
    IF ~createOk THEN [fs |-> disk, err |-> "could not create API file"]
    ELSE LET made == [disk EXCEPT !.api = TRUE]
             rm == removeAPIFile(made, rmOk)
         IN  IF writeOk THEN [fs |-> made, err |-> Nil]
             ELSE IF rm.err # Nil
             THEN [fs |-> rm.fs,
                   err |-> Wrap(rm.err, "failed to remove API file")]
             ELSE [fs |-> rm.fs, err |-> "failed to write to API file"]

\* Close of the FSRepo of p: the datastore is closed, the API file removed
\* and the lock file closed; the first error ends the call.  Closing the
\* lock file gives the lock up even when it reports an error.
Close(disk, p, dsOk, rmOk, lkOk) ==
    LET closed == [disk EXCEPT !.ds = Free]
        rm == removeAPIFile(closed, rmOk)
    IN  IF ~dsOk
        THEN [fs |-> disk, err |-> Wrap("close failed",
                                        "failed to close datastore")]
        ELSE IF rm.err # Nil
        THEN [fs |-> rm.fs, err |-> Wrap(rm.err, "error removing API file")]
        ELSE [fs |-> [rm.fs EXCEPT !.lock = Free],
              err |-> IF lkOk THEN Nil ELSE "close failed"]

\* The FSRepo of a process: the call it is in or made last (op), where the
\* call stands (pc), the error the call returned and the config in memory.
NoFSRepo == [op |-> "none", pc |-> "idle", err |-> Nil, cfg |-> NilConfig]

\* A process's call: the operation, its position, the key it carries (the
\* argument of SetHead, the result of Head) and its error.
Idle == [op |-> "none", pc |-> "idle", key |-> UndefTipSetKey, err |-> Nil]

\* The archive variable also keeps the head the export was asked for and
\* how the export ended.
NoExport ==
    [root |-> UndefTipSetKey, objs |-> <<>>, err |-> "none",
     from |-> UndefTipSetKey]

\* What the exporting node can hold: the whole chain, or all but one object.
Sources == {Objects} \cup {Objects \ {o} : o \in Objects}

(***************************************************************************)
(* The set under Add, Remove, Clear and Has.  members is the mathematical  *)
(* set the calls describe; last records the most recent call.              *)
(***************************************************************************)
NoCall == [op |-> "none"]

\* A node whose chain store holds no tipset state and whose block store is
\* empty.
NoChain ==
    /\ stateTrees = [k \in TipKeys |-> StateErr]
    /\ bstore = [c \in HeadCids |-> NotFound]
    /\ actors = [k \in TipKeys |-> [a \in IDAddresses |-> NoActor]]

\* A node with the head h, the block store store and no call in flight,
\* beside an exporting node that holds src.
NodeAt(h, store, src) ==
    /\ head = h
    /\ calls = [p \in Procs |-> Idle]
    /\ installed = {h}
    /\ source = src
    /\ archive = NoExport
    /\ blocks = store

NoNode ==
    /\ NodeAt(UndefTipSetKey, {}, {})
    /\ epochs = [k \in TipKeys |-> k - 1]

\* No iterator has been asked for: one over no elements stands in.
NoIter ==
    /\ iter = Iter(<<>>)
    /\ nexts = 0

\* The set has no array yet and no value was taken from it.
NoMem == mem = [arr |-> <<>>, val |-> NoValue]

NoRepo ==
    /\ fs = NoDisk
    /\ repos = [p \in Procs |-> NoFSRepo]

Init ==
    /\ s = <<>>
    /\ members = {}
    /\ last = NoCall
    /\ NoChain
    /\ NoNode
    /\ NoIter
    /\ NoMem
    /\ NoRepo

Add(id) ==
    /\ Len(AddSlice(s, id)) <= MaxLen
    /\ s' = AddSlice(s, id)
    /\ members' = members \cup {id}
    /\ last' = [op |-> "Add", id |-> id, ret |-> AddRet(s, id)]
    /\ UNCHANGED <<chainVars, nodeVars, iterVars, memVars, repoVars>>

Remove(id) ==
    /\ s' = RemoveSlice(s, id)
    /\ members' = members \ {id}
    /\ last' = [op |-> "Remove", id |-> id, ret |-> RemoveRet(s, id)]
    /\ UNCHANGED <<chainVars, nodeVars, iterVars, memVars, repoVars>>

Clear ==
    /\ s' = <<>>
    /\ members' = {}
    /\ last' = [op |-> "Clear"]
    /\ UNCHANGED <<chainVars, nodeVars, iterVars, memVars, repoVars>>

HasCall(id) ==
    /\ last' = [op |-> "Has", id |-> id, ret |-> Has(s, id)]
    /\ UNCHANGED <<s, members, chainVars, nodeVars, iterVars, memVars,
                   repoVars>>

\* The set is serialized and the bytes are deserialized: as CBOR into a new
\* value, as JSON into a receiver that starts empty.
CborRoundTrip ==
    /\ last' = [op |-> "CborRoundTrip",
                res |-> TransformUnmarshal(
                            DecodeCids(EncodeCids(TransformMarshal(s))))]
    /\ UNCHANGED <<s, members, chainVars, nodeVars, iterVars, memVars,
                   repoVars>>

JSONRoundTrip ==
    /\ last' = [op |-> "JSONRoundTrip",
                res |-> UnmarshalJSON(<<>>, MarshalJSON(s))]
    /\ UNCHANGED <<s, members, chainVars, nodeVars, iterVars, memVars,
                   repoVars>>

Next ==
    \/ \E id \in Cids : Add(id)
    \/ \E id \in Cids : Remove(id)
    \/ Clear
    \/ \E id \in Cids : HasCall(id)
    \/ CborRoundTrip
    \/ JSONRoundTrip

Spec == Init /\ [][Next]_vars

(***************************************************************************)
(* Calls of the functions that read no receiver state: each call draws its *)
(* arguments, records them with the results in last, and returns.          *)
(***************************************************************************)
\* The sets the constructor builds from the lists of at most MaxLen CIDs.
ConstructedSets == {NewSortedCidSet(ids) : ids \in CidLists}

Permute(ids, p) == [i \in 1..Len(ids) |-> ids[p[i]]]

CidLessCall(a, b, c) ==
    /\ last' = [op |-> "cidLess", a |-> a, b |-> b, c |-> c,
                ab |-> cidLess(a, b), ba |-> cidLess(b, a),
                bc |-> cidLess(b, c), ac |-> cidLess(a, c),
                aa |-> cidLess(a, a)]
    /\ UNCHANGED <<s, members, chainVars, nodeVars, iterVars, memVars,
                   repoVars>>

\* NewSortedCidSet of a list and of a permutation of it.
NewSortedCidSetCall(ids, p) ==
    /\ last' = [op |-> "NewSortedCidSet", ids |-> ids, perm |-> Permute(ids, p),
                set |-> NewSortedCidSet(ids),
                permSet |-> NewSortedCidSet(Permute(ids, p))]
    /\ UNCHANGED <<s, members, chainVars, nodeVars, iterVars, memVars,
                   repoVars>>

\* s.Equals(s2) on two constructed sets.
EqualsCall(q, q2) ==
    /\ last' = [op |-> "Equals", s |-> q, s2 |-> q2, ret |-> Equals(q, q2)]
    /\ UNCHANGED <<s, members, chainVars, nodeVars, iterVars, memVars,
                   repoVars>>

\* The CBOR unmarshal transform on a decoded array.
TransformUnmarshalCall(ts) ==
    /\ last' = [op |-> "TransformUnmarshal", ts |-> ts,
                res |-> TransformUnmarshal(DecodeCids(EncodeCids(ts)))]
    /\ UNCHANGED <<s, members, chainVars, nodeVars, iterVars, memVars,
                   repoVars>>

\* UnmarshalJSON of an encoded array into a receiver that holds recv.
UnmarshalJSONCall(recv, ts) ==
    /\ last' = [op |-> "UnmarshalJSON", recv |-> recv, ts |-> ts,
                res |-> UnmarshalJSON(recv, EncodeCids(ts))]
    /\ UNCHANGED <<s, members, chainVars, nodeVars, iterVars, memVars,
                   repoVars>>

Return ==
    /\ last.op # "none"
    /\ last' = NoCall
    /\ UNCHANGED <<s, members, chainVars, nodeVars, iterVars, memVars,
                   repoVars>>

\* A call is made only when the previous one has returned.
NextPure ==
    \/ /\ last.op = "none"
       /\ \E a \in Cids, b \in Cids, c \in Cids : CidLessCall(a, b, c)
    \/ /\ last.op = "none"
       /\ \E ids \in CidLists : \E p \in Permutations(1..Len(ids)) :
              NewSortedCidSetCall(ids, p)
    \/ /\ last.op = "none"
       /\ \E q \in ConstructedSets, q2 \in ConstructedSets : EqualsCall(q, q2)
    \/ /\ last.op = "none"
       /\ \E ts \in CidLists : TransformUnmarshalCall(ts)
    \/ /\ last.op = "none"
       /\ \E recv \in ConstructedSets, ts \in CidLists :
              UnmarshalJSONCall(recv, ts)
    \/ Return

SpecPure == Init /\ [][NextPure]_vars

(***************************************************************************)
(* Address resolution against a chain store and a block store in any of    *)
(* the conditions a node can find them in.                                 *)
(***************************************************************************)
InitChain ==
    /\ s = <<>>
    /\ members = {}
    /\ last = NoCall
    /\ stateTrees \in [TipKeys -> TreeValues]
    /\ bstore \in [HeadCids -> BlockValues]
    /\ actors = [k \in TipKeys |-> [a \in IDAddresses |-> NoActor]]
    /\ NoNode
    /\ NoIter
    /\ NoMem
    /\ NoRepo

ResolveAddressAtCall(tipKey, addr) ==
    /\ last' = [op |-> "ResolveAddressAt", tipKey |-> tipKey, addr |-> addr,
                res |-> ResolveAddressAt(stateTrees, bstore, tipKey, addr)]
    /\ UNCHANGED <<s, members, chainVars, nodeVars, iterVars, memVars,
                   repoVars>>

NextChain ==
    \/ /\ last.op = "none"
       /\ \E tipKey \in TipKeys, addr \in Addresses :
              ResolveAddressAtCall(tipKey, addr)
    \/ Return

SpecChain == InitChain /\ [][NextChain]_vars

(***************************************************************************)
(* Actor and signature lookups on a node that keeps the state of its head  *)
(* tipset: the tree, its actors and the init actor's state block can be in *)
(* any condition.                                                          *)
(***************************************************************************)
InitActor ==
    /\ s = <<>>
    /\ members = {}
    /\ last = NoCall
    /\ \E h \in TipKeys : NodeAt(h, {}, {})
    /\ epochs = [k \in TipKeys |-> k - 1]
    /\ \E t \in TreeValues :
           stateTrees = [k \in TipKeys |-> IF k = head THEN t ELSE StateErr]
    /\ \E c \in HeadCids, v \in BlockValues :
           bstore = [d \in HeadCids |-> IF d = c THEN v ELSE NotFound]
    /\ \E a \in ActorTables :
           actors = [k \in TipKeys |->
                        IF k = head THEN a ELSE [i \in IDAddresses |-> NoActor]]
    /\ NoIter
    /\ NoMem
    /\ NoRepo

GetActorAtCall(tipKey, addr) ==
    /\ last' = [op |-> "GetActorAt", tipKey |-> tipKey, addr |-> addr,
                res |-> GetActorAt(stateTrees, bstore, actors, tipKey, addr)]
    /\ UNCHANGED <<s, members, chainVars, nodeVars, iterVars, memVars,
                   repoVars>>

GetActorSignatureCall(addr, method, loader) ==
    /\ last' = [op |-> "GetActorSignature", addr |-> addr, method |-> method,
                loader |-> loader,
                res |-> GetActorSignature(stateTrees, bstore, actors, head,
                                          addr, method, loader)]
    /\ UNCHANGED <<s, members, chainVars, nodeVars, iterVars, memVars,
                   repoVars>>

NextActor ==
    \/ /\ last.op = "none"
       /\ \E tipKey \in TipKeys, addr \in Addresses :
              GetActorAtCall(tipKey, addr)
    \/ /\ last.op = "none"
       /\ \E addr \in Addresses, method \in Methods, loader \in LoaderAnswers :
              GetActorSignatureCall(addr, method, loader)
    \/ Return

SpecActor == InitActor /\ [][NextActor]_vars

(***************************************************************************)
(* The head pointer under concurrent SetHead and Head calls.  A process    *)
(* makes one call at a time; SetHead takes two steps, one for each call it *)
(* makes on the chain store.                                               *)
(***************************************************************************)
AllKeys == TipKeys \cup {UndefTipSetKey}

\* A SetHead that goes on whatever the lookup of the tipset gave.
SetHeadUnchecked(p, key) ==
    /\ calls[p].op = "none"
    /\ calls' = [calls EXCEPT ![p] =
                    [op |-> "SetHead", pc |-> "SetHead", key |-> key,
                     err |-> Nil]]
    /\ UNCHANGED <<s, members, last, chainVars, head, installed, source,
                   archive, blocks, epochs, iterVars, memVars, repoVars>>

\* SetHead's first statement: the tipset of key is looked up, and the call
\* ends with the error when there is none.
SetHeadGetTipSet(p, key) ==
    /\ calls[p].op = "none"
    /\ LET t == GetTipSet(blocks, key)
       IN  calls' = [calls EXCEPT ![p] =
                        IF t.err # Nil
                        THEN [op |-> "SetHead", pc |-> "done", key |-> key,
                              err |-> t.err]
                        ELSE [op |-> "SetHead", pc |-> "SetHead",
                              key |-> t.ts, err |-> Nil]]
    /\ UNCHANGED <<s, members, last, chainVars, head, installed, source,
                   archive, blocks, epochs, iterVars, memVars, repoVars>>

\* SetHead's second statement: the chain store's SetHead with the tipset.
SetHeadStore(p, ok) ==
    /\ calls[p].op = "SetHead"
    /\ calls[p].pc = "SetHead"
    /\ LET r == StoreSetHead(head, calls[p].key, ok)
       IN  /\ head' = r.head
           /\ calls' = [calls EXCEPT ![p] =
                           [op |-> "SetHead", pc |-> "done",
                            key |-> calls[p].key, err |-> r.err]]
           /\ installed' = IF r.err = Nil THEN installed \cup {r.head}
                           ELSE installed
    /\ UNCHANGED <<s, members, last, chainVars, source, archive, blocks,
                   epochs, iterVars, memVars, repoVars>>

\* Head: the chain store's GetHead.
HeadCall(p) ==
    /\ calls[p].op = "none"
    /\ calls' = [calls EXCEPT ![p] =
                    [op |-> "Head", pc |-> "done", key |-> head, err |-> Nil]]
    /\ UNCHANGED <<s, members, last, chainVars, head, installed, source,
                   archive, blocks, epochs, iterVars, memVars, repoVars>>

ReturnCall(p) ==
    /\ calls[p].pc = "done"
    /\ calls' = [calls EXCEPT ![p] = Idle]
    /\ UNCHANGED <<s, members, last, chainVars, head, installed, source,
                   archive, blocks, epochs, iterVars, memVars, repoVars>>

\* A node that holds the chain up to some tipset, which is its head.
InitHead ==
    /\ s = <<>>
    /\ members = {}
    /\ last = NoCall
    /\ NoChain
    /\ \E m \in AllKeys : NodeAt(m, ChainObjects(m), {})
    /\ epochs = [k \in TipKeys |-> k - 1]
    /\ NoIter
    /\ NoMem
    /\ NoRepo

NextHead ==
    \/ \E p \in Procs, key \in AllKeys : SetHeadGetTipSet(p, key)
    \/ \E p \in Procs, ok \in BOOLEAN : SetHeadStore(p, ok)
    \/ \E p \in Procs : HeadCall(p)
    \/ \E p \in Procs : ReturnCall(p)

SpecHead == InitHead /\ [][NextHead]_vars

(***************************************************************************)
(* Export on a node that holds source, import and SetHead on a node that   *)
(* holds blocks; the calls are made one after the other.                   *)
(***************************************************************************)
AllIdle == \A p \in Procs : calls[p].op = "none"

OthersIdle(p) == \A q \in Procs \ {p} : calls[q].op = "none"

ChainExportCall(h) ==
    /\ LET r == ChainExport(source, h)
       IN  /\ archive' = [root |-> r.car.root, objs |-> r.car.objs,
                          err |-> r.err, from |-> h]
           /\ last' = [op |-> "ChainExport", head |-> h, err |-> r.err]
    /\ UNCHANGED <<s, members, chainVars, head, calls, installed, source,
                   blocks, epochs, iterVars, memVars, repoVars>>

\* An import whose completion also switches the head to the imported key.
ChainImportSwitchingHead ==
    /\ LET r == ChainImport(blocks, [root |-> archive.root,
                                     objs |-> archive.objs])
       IN  /\ blocks' = r.store
           /\ head' = IF r.err = Nil THEN r.key ELSE head
           /\ last' = [op |-> "ChainImport", key |-> r.key, err |-> r.err,
                       before |-> blocks]
    /\ UNCHANGED <<s, members, chainVars, calls, installed, source, archive,
                   epochs, iterVars, memVars, repoVars>>

\* ChainImport of the archive into the node's block store.
ChainImportCall ==
    /\ LET r == ChainImport(blocks, [root |-> archive.root,
                                     objs |-> archive.objs])
       IN  /\ blocks' = r.store
           /\ last' = [op |-> "ChainImport", key |-> r.key, err |-> r.err,
                       before |-> blocks]
    /\ UNCHANGED <<s, members, chainVars, head, calls, installed, source,
                   archive, epochs, iterVars, memVars, repoVars>>

InitArchive ==
    /\ s = <<>>
    /\ members = {}
    /\ last = NoCall
    /\ NoChain
    /\ \E m \in AllKeys, src \in Sources : NodeAt(m, ChainObjects(m), src)
    /\ epochs = [k \in TipKeys |-> k - 1]
    /\ NoIter
    /\ NoMem
    /\ NoRepo

NextArchive ==
    \/ /\ last.op = "none"
       /\ AllIdle
       /\ \E h \in AllKeys : ChainExportCall(h)
    \/ /\ last.op = "none"
       /\ AllIdle
       /\ ChainImportCall
    \/ Return
    \/ \E p \in Procs : OthersIdle(p) /\ \E key \in AllKeys :
           SetHeadGetTipSet(p, key)
    \/ \E p \in Procs, ok \in BOOLEAN : SetHeadStore(p, ok)
    \/ \E p \in Procs : OthersIdle(p) /\ HeadCall(p)
    \/ \E p \in Procs : ReturnCall(p)

SpecArchive == InitArchive /\ [][NextArchive]_vars

(***************************************************************************)
(* Sampling chain randomness between SetHead calls.  last keeps the most   *)
(* recent sample and the head it was made under; a sample that repeats the *)
(* one before it also keeps what that one returned and whether the head    *)
(* has moved since.                                                        *)
(***************************************************************************)
SampleChainRandomnessCall(hd, tag, epoch, entropy) ==
    /\ LET out == SampleChainRandomness(blocks, epochs, head, hd, tag, epoch,
                                        entropy)
           again == /\ last.op = "Sample"
                    /\ last.hd = hd
                    /\ last.tag = tag
                    /\ last.epoch = epoch
                    /\ last.entropy = entropy
       IN  last' = [op |-> "Sample", hd |-> hd, tag |-> tag, epoch |-> epoch,
                    entropy |-> entropy, cur |-> head, out |-> out,
                    again |-> again,
                    prev |-> IF again THEN last.out ELSE out,
                    moved |-> IF again THEN last.cur # head ELSE FALSE]
    /\ UNCHANGED <<s, members, chainVars, nodeVars, iterVars, memVars,
                   repoVars>>

\* SetHead as one step of a single caller: the tipset is looked up and,
\* when it is there, handed to the chain store.
SetHead(key, ok) ==
    /\ LET t == GetTipSet(blocks, key)
           r == StoreSetHead(head, t.ts, ok)
       IN  /\ head' = IF t.err # Nil THEN head ELSE r.head
           /\ installed' = IF t.err = Nil /\ r.err = Nil
                           THEN installed \cup {r.head}
                           ELSE installed
    /\ UNCHANGED <<s, members, last, chainVars, calls, source, archive,
                   blocks, epochs, iterVars, memVars, repoVars>>

InitSample ==
    /\ s = <<>>
    /\ members = {}
    /\ last = NoCall
    /\ NoChain
    /\ \E m \in AllKeys : NodeAt(m, ChainObjects(m), {})
    /\ epochs \in EpochMaps
    /\ NoIter
    /\ NoMem
    /\ NoRepo

\* A sample is made after the previous call has returned, or repeats the
\* sample before it.
NextSample ==
    \/ /\ last.op = "none"
       /\ \E hd \in AllKeys, tag \in Tags, epoch \in SampleEpochs,
             entropy \in Entropies :
              SampleChainRandomnessCall(hd, tag, epoch, entropy)
    \/ /\ last.op = "Sample"
       /\ SampleChainRandomnessCall(last.hd, last.tag, last.epoch,
                                    last.entropy)
    \/ Return
    \/ \E key \in AllKeys, ok \in BOOLEAN : SetHead(key, ok)

SpecSample == InitSample /\ [][NextSample]_vars

(***************************************************************************)
(* Iterating over a set built by NewSortedCidSet.                          *)
(***************************************************************************)
InitIter ==
    /\ s \in ConstructedSets
    /\ members = {s[i] : i \in 1..Len(s)}
    /\ last = NoCall
    /\ NoChain
    /\ NoNode
    /\ NoIter
    /\ NoMem
    /\ NoRepo

IterCall ==
    /\ iter' = Iter(s)
    /\ nexts' = 0
    /\ last' = [op |-> "Iter"]
    /\ UNCHANGED <<s, members, chainVars, nodeVars, memVars, repoVars>>

\* One more Next than the set has elements is enough to see the iterator
\* stay at its end.
NextCall ==
    /\ nexts <= Len(iter.s)
    /\ iter' = IterNext(iter)
    /\ nexts' = nexts + 1
    /\ last' = [op |-> "Next", ret |-> NextRet(iter)]
    /\ UNCHANGED <<s, members, chainVars, nodeVars, memVars, repoVars>>

NextIter ==
    \/ IterCall
    \/ NextCall

SpecIter == InitIter /\ [][NextIter]_vars

(***************************************************************************)
(* GetActor and LsActors step by step, with SetHead calls of another       *)
(* caller between the steps.  last is the call in flight: the head it      *)
(* read (key), the keys its later steps used (used) and its result.        *)
(***************************************************************************)
\* The state every tipset but the first has: an init actor that maps each
\* key address to ID address 1, and an account under every ID address.
FullTree == [kind |-> "Actor", head |-> 1]

FullTable == [a \in IDAddresses |-> [kind |-> "Actor", code |-> "account"]]

FullState == [kind |-> "State", addressMap |-> [k \in KeyAddresses |-> 1]]

InitView ==
    /\ s = <<>>
    /\ members = {}
    /\ last = NoCall
    /\ \E h \in TipKeys : NodeAt(h, ChainObjects(MaxTips), {})
    /\ epochs = [k \in TipKeys |-> k - 1]
    /\ \E t \in TreeValues :
           stateTrees = [k \in TipKeys |-> IF k = 1 THEN t ELSE FullTree]
    /\ bstore = [c \in HeadCids |-> FullState]
    /\ \E a \in ActorTables :
           actors = [k \in TipKeys |-> IF k = 1 THEN a ELSE FullTable]
    /\ NoIter
    /\ NoMem
    /\ NoRepo

\* GetActor evaluates chn.readWriter.GetHead() and calls GetActorAt.
GetActorGetHead(addr) ==
    /\ last.op = "none"
    /\ last' = [op |-> "GetActor", pc |-> "GetTipSetState", addr |-> addr,
                key |-> head, used |-> {}, idAddr |-> Undef,
                actor |-> NilActor, out |-> NoActors, err |-> Nil]
    /\ UNCHANGED <<s, members, chainVars, nodeVars, iterVars, memVars,
                   repoVars>>

\* GetActorAt's first statement: the state tree of tipKey is loaded.
GetActorAtGetTipSetState ==
    /\ last.op = "GetActor"
    /\ last.pc = "GetTipSetState"
    /\ LET k == TipKeyOf(last, head)
       IN  last' = IF stateTrees[k].kind = "StateErr"
                   THEN [last EXCEPT
                            !.pc = "done", !.used = @ \cup {k},
                            !.err = Wrap("state not found",
                                         "failed to load latest state")]
                   ELSE [last EXCEPT
                            !.pc = "ResolveAddressAt", !.used = @ \cup {k}]
    /\ UNCHANGED <<s, members, chainVars, nodeVars, iterVars, memVars,
                   repoVars>>

\* The address is resolved at tipKey.
GetActorAtResolveAddressAt ==
    /\ last.op = "GetActor"
    /\ last.pc = "ResolveAddressAt"
    /\ LET k == TipKeyOf(last, head)
           r == ResolveAddressAt(stateTrees, bstore, k, last.addr)
       IN  last' = IF r.err # Nil
                   THEN [last EXCEPT
                            !.pc = "done", !.used = @ \cup {k}, !.err = r.err]
                   ELSE [last EXCEPT
                            !.pc = "st.GetActor", !.used = @ \cup {k},
                            !.idAddr = r.addr]
    /\ UNCHANGED <<s, members, chainVars, nodeVars, iterVars, memVars,
                   repoVars>>

\* The actor is looked up in the tree loaded by the first statement.
GetActorAtTreeGetActor ==
    /\ last.op = "GetActor"
    /\ last.pc = "st.GetActor"
    /\ LET k == TipKeyOf(last, head)
           g == TreeGetActor(stateTrees[k], actors[k], last.idAddr)
       IN  last' = IF g.err # Nil
                   THEN [last EXCEPT
                            !.pc = "done", !.used = @ \cup {k}, !.err = g.err]
                   ELSE IF ~g.found
                   THEN [last EXCEPT
                            !.pc = "done", !.used = @ \cup {k},
                            !.err = ErrNotFound]
                   ELSE [last EXCEPT
                            !.pc = "done", !.used = @ \cup {k},
                            !.actor = g.actor]
    /\ UNCHANGED <<s, members, chainVars, nodeVars, iterVars, memVars,
                   repoVars>>

\* LsActors evaluates chn.readWriter.GetHead().
LsActorsGetHead ==
    /\ last.op = "none"
    /\ last' = [op |-> "LsActors", pc |-> "GetTipSetState",
                addr |-> Undef, key |-> head, used |-> {}, idAddr |-> Undef,
                actor |-> NilActor, out |-> NoActors, err |-> Nil]
    /\ UNCHANGED <<s, members, chainVars, nodeVars, iterVars, memVars,
                   repoVars>>

\* LsActors loads the state tree of the head it read and lists its actors.
LsActorsGetTipSetState ==
    /\ last.op = "LsActors"
    /\ last.pc = "GetTipSetState"
    /\ LET k == TipKeyOf(last, head)
           r == LsActors(stateTrees, actors, k)
       IN  last' = [last EXCEPT
                       !.pc = "done", !.used = @ \cup {k}, !.out = r.out,
                       !.err = r.err]
    /\ UNCHANGED <<s, members, chainVars, nodeVars, iterVars, memVars,
                   repoVars>>

\* The call in flight returns once it has its result.
ReturnView ==
    /\ last.op # "none"
    /\ last.pc = "done"
    /\ last' = NoCall
    /\ UNCHANGED <<s, members, chainVars, nodeVars, iterVars, memVars,
                   repoVars>>

NextView ==
    \/ \E addr \in Addresses : GetActorGetHead(addr)
    \/ GetActorAtGetTipSetState
    \/ GetActorAtResolveAddressAt
    \/ GetActorAtTreeGetActor
    \/ LsActorsGetHead
    \/ LsActorsGetTipSetState
    \/ ReturnView
    \/ \E key \in AllKeys, ok \in BOOLEAN : SetHead(key, ok)

SpecView == InitView /\ [][NextView]_vars

(***************************************************************************)
(* Calls on the repository.  Every process has at most one FSRepo; the     *)
(* outcomes of the file system calls are drawn with each call.             *)
(***************************************************************************)
othersUnchanged ==
    UNCHANGED <<s, members, last, chainVars, nodeVars, iterVars, memVars>>

InitFSRepoCall(p, cfg, wv, wc) ==
    /\ repos[p].pc = "idle"
    /\ LET r == InitFSRepo(fs, cfg, wv, wc)
       IN  /\ fs' = r.fs
           /\ repos' = [repos EXCEPT ![p] =
                           [op |-> "Init", pc |-> "done", err |-> r.err,
                            cfg |-> NilConfig]]
    /\ othersUnchanged

\* OpenFSRepo up to the test for the config file.
OpenFSRepoHasConfig(p, statOk) ==
    /\ repos[p].pc = "idle"
    /\ LET h == hasConfig(fs, statOk)
           ret(e) == [op |-> "Open", pc |-> "done", err |-> e,
                      cfg |-> NilConfig]
       IN  repos' = [repos EXCEPT ![p] =
                        IF h.err # Nil
                        THEN ret(Wrap(h.err, "failed to check for repo config"))
                        ELSE IF ~h.has THEN ret("no repo found")
                        ELSE [op |-> "Open", pc |-> "Lock", err |-> Nil,
                              cfg |-> NilConfig]]
    /\ UNCHANGED fs
    /\ othersUnchanged

\* r.lockfile, err = lockfile.Lock(r.path, lockFile).
OpenFSRepoLock(p) ==
    /\ repos[p].pc = "Lock"
    /\ LET l == Lock(fs.lock, p)
       IN  /\ fs' = [fs EXCEPT !.lock = l.holder]
           /\ repos' = [repos EXCEPT ![p] =
                           IF l.err # Nil
                           THEN [@ EXCEPT !.pc = "done",
                                          !.err = Wrap(l.err, ErrRepoLock)]
                           ELSE [@ EXCEPT !.pc = "loadFromDisk"]]
    /\ othersUnchanged

\* r.loadFromDisk(): on success the FSRepo is returned; an error is kept
\* until the lock file has been closed; a panic leaves the function.
OpenFSRepoLoadFromDisk(p, dsOk, ksOk) ==
    /\ repos[p].pc = "loadFromDisk"
    /\ LET l == loadFromDisk(fs, p, dsOk, ksOk)
       IN  /\ fs' = [fs EXCEPT !.ds = l.ds]
           /\ repos' = [repos EXCEPT ![p] =
                           IF l.panic THEN [@ EXCEPT !.pc = "panicked"]
                           ELSE IF l.err # Nil
                           THEN [@ EXCEPT !.pc = "lockfile.Close",
                                          !.err = l.err]
                           ELSE [@ EXCEPT !.pc = "open", !.cfg = l.cfg]]
    /\ othersUnchanged

\* _ = r.lockfile.Close(); return nil, err.
OpenFSRepoUnlock(p) ==
    /\ repos[p].pc = "lockfile.Close"
    /\ fs' = [fs EXCEPT !.lock = Free]
    /\ repos' = [repos EXCEPT ![p].pc = "done"]
    /\ othersUnchanged

SetAPIAddrCall(p, createOk, writeOk, rmOk) ==
    /\ repos[p].pc = "open"
    /\ LET r == SetAPIAddr(fs, createOk, writeOk, rmOk)
       IN  /\ fs' = r.fs
           /\ repos' = [repos EXCEPT ![p].op = "SetAPIAddr", ![p].err = r.err]
    /\ othersUnchanged

ReplaceConfigCall(p, cfg, rmOk, wr, mvOk) ==
    /\ repos[p].pc = "open"
    /\ LET r == ReplaceConfig(fs, repos[p], cfg, rmOk, wr, mvOk)
       IN  /\ fs' = r.fs
           /\ repos' = [repos EXCEPT ![p] =
                           [r.repo EXCEPT !.op = "ReplaceConfig",
                                          !.err = r.err]]
    /\ othersUnchanged

CloseCall(p, dsOk, rmOk, lkOk) ==
    /\ repos[p].pc = "open"
    /\ LET r == Close(fs, p, dsOk, rmOk, lkOk)
       IN  /\ fs' = r.fs
           /\ repos' = [repos EXCEPT ![p].op = "Close", ![p].pc = "closed",
                                     ![p].err = r.err]
    /\ othersUnchanged

\* The caller of a call that has ended drops what the call gave it: what
\* the FSRepo still held stays held, with nobody left to give it up.
ReturnRepo(p) ==
    /\ repos[p].pc \in {"done", "closed", "panicked"}
    /\ repos' = [repos EXCEPT ![p] = NoFSRepo]
    /\ fs' = [fs EXCEPT !.lock = IF @ = p THEN Leaked ELSE @,
                        !.ds = IF @ = p THEN Leaked ELSE @]
    /\ othersUnchanged

\* What can be at the repo path before InitFSRepo: nothing, nothing that
\* could be created, a file, or a directory with any of the files.
InitialDisks ==
    {[NoDisk EXCEPT !.dir = d] : d \in {"absent", "unreachable", "file"}}
        \cup {[NoDisk EXCEPT !.dir = "dir", !.writable = w, !.other = o,
                             !.version = v, !.config = c] :
                 w \in BOOLEAN, o \in BOOLEAN, v \in VersionFiles,
                 c \in ConfigFiles}

InitInitFSRepo ==
    /\ s = <<>>
    /\ members = {}
    /\ last = NoCall
    /\ NoChain
    /\ NoNode
    /\ NoIter
    /\ NoMem
    /\ fs \in InitialDisks
    /\ repos = [p \in Procs |-> NoFSRepo]

NextInitFSRepo ==
    \/ \E p \in Procs, cfg \in Configs, wv \in WriteResults,
          wc \in WriteResults : InitFSRepoCall(p, cfg, wv, wc)
    \/ \E p \in Procs : ReturnRepo(p)

SpecInitFSRepo == InitInitFSRepo /\ [][NextInitFSRepo]_vars

\* The directories OpenFSRepo is called on: writable, with any version and
\* config file.
RepoDisks ==
    {[NoDisk EXCEPT !.dir = "dir", !.writable = TRUE, !.version = v,
                    !.config = c] : v \in VersionFiles, c \in ConfigFiles}

InitRepo ==
    /\ s = <<>>
    /\ members = {}
    /\ last = NoCall
    /\ NoChain
    /\ NoNode
    /\ NoIter
    /\ NoMem
    /\ fs \in RepoDisks
    /\ repos = [p \in Procs |-> NoFSRepo]

\* Opening and closing alone.
NextLock ==
    \/ \E p \in Procs, statOk \in BOOLEAN : OpenFSRepoHasConfig(p, statOk)
    \/ \E p \in Procs : OpenFSRepoLock(p)
    \/ \E p \in Procs, dsOk \in BOOLEAN, ksOk \in BOOLEAN :
           OpenFSRepoLoadFromDisk(p, dsOk, ksOk)
    \/ \E p \in Procs : OpenFSRepoUnlock(p)
    \/ \E p \in Procs, dsOk \in BOOLEAN, rmOk \in BOOLEAN, lkOk \in BOOLEAN :
           CloseCall(p, dsOk, rmOk, lkOk)
    \/ \E p \in Procs : ReturnRepo(p)

SpecLock == InitRepo /\ [][NextLock]_vars

\* Every call on the repository.
NextRepo ==
    \/ \E p \in Procs, statOk \in BOOLEAN : OpenFSRepoHasConfig(p, statOk)
    \/ \E p \in Procs : OpenFSRepoLock(p)
    \/ \E p \in Procs, dsOk \in BOOLEAN, ksOk \in BOOLEAN :
           OpenFSRepoLoadFromDisk(p, dsOk, ksOk)
    \/ \E p \in Procs : OpenFSRepoUnlock(p)
    \/ \E p \in Procs, createOk \in BOOLEAN, writeOk \in BOOLEAN,
          rmOk \in BOOLEAN : SetAPIAddrCall(p, createOk, writeOk, rmOk)
    \/ \E p \in Procs, cfg \in Configs, rmOk \in BOOLEAN,
          wr \in WriteResults, mvOk \in BOOLEAN :
           ReplaceConfigCall(p, cfg, rmOk, wr, mvOk)
    \/ \E p \in Procs, dsOk \in BOOLEAN, rmOk \in BOOLEAN, lkOk \in BOOLEAN :
           CloseCall(p, dsOk, rmOk, lkOk)
    \/ \E p \in Procs : ReturnRepo(p)

SpecRepo == InitRepo /\ [][NextRepo]_vars

(***************************************************************************)
(* The set and a value taken from it, in memory.  Add, Remove and Clear    *)
(* act on the array behind the slice; an iterator, a copy or a ToSlice     *)
(* result is taken at any time and replaces the one taken before.          *)
(***************************************************************************)
AddInPlace(id) ==
    /\ Len(AddSlice(s, id)) <= MaxLen
    /\ LET res == AddArray(mem.arr, s, id)
       IN  mem' = [arr |-> res.arr, val |-> Follow(mem, res.moved)]
    /\ s' = AddSlice(s, id)
    /\ members' = members \cup {id}
    /\ UNCHANGED <<last, chainVars, nodeVars, iterVars, repoVars>>

RemoveInPlace(id) ==
    /\ mem' = [mem EXCEPT !.arr = RemoveArray(mem.arr, s, id)]
    /\ s' = RemoveSlice(s, id)
    /\ members' = members \ {id}
    /\ UNCHANGED <<last, chainVars, nodeVars, iterVars, repoVars>>

\* Clear: s.s = s.s[:0] keeps the array.
ClearInPlace ==
    /\ s' = <<>>
    /\ members' = {}
    /\ UNCHANGED <<last, chainVars, nodeVars, iterVars, memVars, repoVars>>

TakeIter ==
    /\ mem' = [mem EXCEPT !.val = IterValue(s)]
    /\ UNCHANGED <<s, members, last, chainVars, nodeVars, iterVars,
                   repoVars>>

TakeCopy ==
    /\ mem' = [mem EXCEPT !.val = CopyValue(s)]
    /\ UNCHANGED <<s, members, last, chainVars, nodeVars, iterVars,
                   repoVars>>

TakeToSlice ==
    /\ mem' = [mem EXCEPT !.val = ToSliceValue(s)]
    /\ UNCHANGED <<s, members, last, chainVars, nodeVars, iterVars,
                   repoVars>>

\* Identifiers that differ in their hash only.
HashCids == {c \in Cids : c.version = 0 /\ c.codec = 0}

NextAlias ==
    \/ \E id \in HashCids : AddInPlace(id)
    \/ \E id \in HashCids : RemoveInPlace(id)
    \/ ClearInPlace
    \/ TakeIter
    \/ TakeCopy
    \/ TakeToSlice

SpecAlias == Init /\ [][NextAlias]_vars

(***************************************************************************)
(* Properties of the set.                                                  *)
(***************************************************************************)
Range(q) == {q[i] : i \in 1..Len(q)}

\* Strictly ascending in the (version, codec, hash) order, hence duplicate free.
StrictlyAscending(q) ==
    \A i \in 1..Len(q), j \in 1..Len(q) :
        i < j => cidLessLexicographic(q[i], q[j])

NoDuplicates(q) == \A i \in 1..Len(q), j \in 1..Len(q) : i # j => q[i] # q[j]

\* C1: after any sequence of Add, Remove and Clear the stored sequence is
\* strictly ascending in the CID order, holds no CID twice, and ToSlice
\* yields the elements in exactly that order.
C1_SortedNoDuplicates ==
    /\ StrictlyAscending(s)
    /\ NoDuplicates(s)
    /\ ToSlice(s) = s
    /\ StrictlyAscending(ToSlice(s))

\* C4: Add(id) of an absent id returns true, after which Has(id) holds and
\* Len grew by one; Add(id) of a present id returns false and changes nothing.
C4_AddContract ==
    [][\A id \in Cids : Add(id) =>
         /\ id \notin Range(s) =>
              last'.ret /\ Has(s', id) /\ Len(s') = Len(s) + 1
         /\ id \in Range(s) => ~last'.ret /\ s' = s]_vars

\* C5: the set behaves as the mathematical set of the CIDs added and not
\* removed or cleared since: Has agrees with membership, Len is the number
\* of members, and Remove(id) reports membership, removes id and keeps
\* every other member.
C5_SetRefinement ==
    /\ [](/\ \A id \in Cids : Has(s, id) <=> id \in members
          /\ Len(s) = Cardinality(members)
          /\ Range(s) = members)
    /\ [][\A id \in Cids : Remove(id) =>
            /\ last'.ret <=> id \in members
            /\ Range(s') = Range(s) \ {id}]_vars

\* C8: serializing a set reached by Add, Remove and Clear and deserializing
\* the result, as CBOR or as JSON, succeeds and yields the same elements in
\* the same order.
C8_RoundTripReachable ==
    last.op \in {"CborRoundTrip", "JSONRoundTrip"} =>
        last.res.err = Nil /\ last.res.set = s

\* C2: cidLess is a strict total order: irreflexive, asymmetric, transitive,
\* total on distinct CIDs, and equal to the lexicographic comparison of
\* (version, codec, hash bytes).
C2_StrictTotalOrder ==
    last.op = "cidLess" =>
        /\ ~last.aa
        /\ ~(last.ab /\ last.ba)
        /\ last.ab /\ last.bc => last.ac
        /\ last.a # last.b => (last.ab \/ last.ba)
        /\ last.ab <=> cidLessLexicographic(last.a, last.b)

\* C3: s.Equals(s2) is true exactly when s and s2 have the same length and
\* the same element at every position.
C3_EqualsIffSame ==
    last.op = "Equals" => (last.ret <=> last.s = last.s2)

\* C6: NewSortedCidSet of a list and of any permutation of it have the same
\* ToSlice sequence and are Equal.
C6_OrderIndependent ==
    last.op = "NewSortedCidSet" =>
        /\ ToSlice(last.set) = ToSlice(last.permSet)
        /\ Equals(last.set, last.permSet)

\* C7: both deserializers reject a list that is not strictly increasing in
\* the CID order, producing no set; the JSON receiver keeps its contents.
C7_RejectsUnsorted ==
    /\ last.op = "TransformUnmarshal" /\ ~StrictlyAscending(last.ts) =>
           last.res.err # Nil /\ last.res.set = <<>>
    /\ last.op = "UnmarshalJSON" /\ ~StrictlyAscending(last.ts) =>
           last.res.err # Nil /\ last.res.set = last.recv

RegistryReads == {"GetActor", "bstore.Get", "Decode"}

\* C9: on a tipset whose state tree loads and can be read, ResolveAddressAt
\* of an address already in ID form returns that address with a nil error
\* and reads neither the init actor nor its state, also when the init actor
\* is absent or its head state is not retrievable.
C9_IDAddressFastPath ==
    /\ last.op = "ResolveAddressAt"
    /\ last.addr.protocol = "ID"
    /\ stateTrees[last.tipKey].kind \in {"NoActor", "Actor"}
    => /\ last.res.addr = last.addr
       /\ last.res.err = Nil
       /\ \A i \in 1..Len(last.res.reads) : last.res.reads[i] \notin RegistryReads

\* C10: ResolveAddressAt on a tipset whose state tree has no init actor
\* returns a non-nil error.
C10_NoRegistryActorIsError ==
    /\ last.op = "ResolveAddressAt"
    /\ stateTrees[last.tipKey] = NoActor
    => last.res.err # Nil

\* The other half of C8, on the deserializers alone: a strictly increasing
\* list decodes without error to a set holding exactly that list.
IncreasingListDecodes ==
    last.op \in {"TransformUnmarshal", "UnmarshalJSON"}
    /\ StrictlyAscending(last.ts)
    => last.res.err = Nil /\ last.res.set = last.ts

(***************************************************************************)
(* Properties of the actor and signature lookups.                          *)
(***************************************************************************)
NotFoundErrors == {ErrNotFound, "actor not found"}

\* C11: on a tipset whose state tree loads and can be read, GetActorAt
\* returns the actor record stored under the canonical identifier of the
\* address (the address itself when it is in ID form, else what the init
\* actor's address map gives it); when the address has no mapping or the
\* tree has no entry under the identifier it fails with a not-found error,
\* never with a decode error; and it never returns a nil actor with a nil
\* error.
C11_GetActorAtCanonical ==
    (last.op = "GetActorAt"
        /\ stateTrees[last.tipKey].kind \in {"NoActor", "Actor"}) =>
        LET st == stateTrees[last.tipKey]
            table == actors[last.tipKey]
            res == last.res
            Under(id) ==
                IF table[id] # NoActor
                THEN res = [actor |-> table[id], err |-> Nil]
                ELSE res.actor = NilActor /\ res.err \in NotFoundErrors
        IN  /\ ~(res.actor = NilActor /\ res.err = Nil)
            /\ last.addr.protocol = "ID" => Under(last.addr)
            /\ (/\ last.addr.protocol # "ID"
                /\ st.kind = "Actor"
                /\ bstore[st.head].kind = "State") =>
                   IF last.addr \in DOMAIN bstore[st.head].addressMap
                   THEN Under(IDAddress(bstore[st.head].addressMap[last.addr]))
                   ELSE res.actor = NilActor /\ res.err \in NotFoundErrors

\* C12: GetActorSignature classifies in a fixed order.  The value-transfer
\* method gives ErrNoMethod before anything is read; otherwise, when the
\* actor was fetched, an actor without code gives ErrNoActorImpl whatever
\* the registry would answer; otherwise a method the loaded implementation
\* does not export gives the missing-export error; and a signature is
\* returned only when none of these applies, with a nil error.
C12_SignatureOrder ==
    last.op = "GetActorSignature" =>
        LET res == last.res
            fetched == last.method # MethodSend /\ res.got.err = Nil
        IN  /\ last.method = MethodSend =>
                   /\ res.err = ErrNoMethod
                   /\ res.sig = NilSignature
                   /\ res.reads = <<>>
            /\ fetched /\ res.got.actor.code = UndefCode =>
                   res.err = ErrNoActorImpl /\ res.sig = NilSignature
            /\ (/\ fetched
                /\ res.got.actor.code # UndefCode
                /\ ~last.loader.implErr
                /\ last.loader.sigErr) =>
                   /\ res.err = "missing export: " \o ToString(last.method)
                   /\ res.sig = NilSignature
            /\ res.sig # NilSignature =>
                   /\ res.err = Nil
                   /\ fetched
                   /\ res.got.actor.code # UndefCode
                   /\ ~last.loader.implErr
                   /\ ~last.loader.sigErr
                   /\ res.sig = [kind |-> "Signature",
                                 code |-> res.got.actor.code,
                                 method |-> last.method]
            /\ res.sig = NilSignature => res.err # Nil

\* An actor without code is asked for a method its registry answer would
\* not export either: the missing code decides.
C12_Witness ==
    /\ last.op = "GetActorSignature"
    /\ last.method # MethodSend
    /\ last.res.got.err = Nil
    /\ last.res.got.actor.code = UndefCode
    /\ last.loader.sigErr
    /\ last.res.err = ErrNoActorImpl

(***************************************************************************)
(* Properties of the head pointer.                                         *)
(***************************************************************************)
Known(key) == key \in TipKeys /\ Block(key) \in blocks

\* C13: SetHead is all or nothing.  A SetHead whose key names no tipset of
\* the chain store ends with an error and leaves the head; the step that
\* makes a SetHead return nil makes its key the head, and a failing one
\* leaves the head; and Head only returns the initial head or a head that a
\* successful SetHead installed, whatever calls run concurrently.
C13_SetHeadAllOrNothing ==
    /\ [](\A p \in Procs : calls[p].op = "Head" => calls[p].key \in installed)
    /\ [][\A p \in Procs, key \in AllKeys :
            (SetHeadGetTipSet(p, key) /\ ~Known(key)) =>
                /\ calls'[p].pc = "done"
                /\ calls'[p].err # Nil
                /\ head' = head]_vars
    /\ [][\A p \in Procs, ok \in BOOLEAN :
            SetHeadStore(p, ok) =>
                IF calls'[p].err = Nil
                THEN head' = calls[p].key /\ Known(calls[p].key)
                ELSE head' = head]_vars

\* A SetHead returned nil, a concurrent Head returned its key, and the head
\* had been another one before.
C13_Witness ==
    \E p \in Procs, q \in Procs :
        /\ calls[p].op = "SetHead"
        /\ calls[p].pc = "done"
        /\ calls[p].err = Nil
        /\ calls[q].op = "Head"
        /\ calls[q].key = calls[p].key
        /\ head = calls[p].key
        /\ Cardinality(installed) > 1

\* C14: ChainImport never changes the head, whether it succeeds or fails;
\* the head changes only in the step of a SetHead that returns nil, and
\* becomes that SetHead's key.
C14_ImportKeepsHead ==
    /\ [][ChainImportCall => head' = head]_vars
    /\ [][head' # head =>
            \E p \in Procs :
                /\ calls[p].op = "SetHead"
                /\ calls[p].pc = "SetHead"
                /\ calls'[p].pc = "done"
                /\ calls'[p].err = Nil
                /\ head' = calls[p].key]_vars

\* An import succeeded and the head is still not the imported key.
C14_Witness ==
    /\ last.op = "ChainImport"
    /\ last.err = Nil
    /\ last.key \in TipKeys
    /\ head # last.key

(***************************************************************************)
(* Properties of export and import.                                        *)
(***************************************************************************)
\* Every object reachable from the objects of S.
RECURSIVE Reachable(_)
Reachable(S) ==
    LET T == S \cup UNION {Links(o) : o \in S}
    IN  IF T = S THEN S ELSE Reachable(T)

FreshImport ==
    last.op = "ChainImport" /\ archive.err = Nil /\ last.before = {}

Count(x, q) == Cardinality({i \in 1..Len(q) : q[i] = x})

\* C16: in the archive of a successful export the head's block and every
\* content identifier an included object refers to appear exactly once, and
\* no object is written twice.
C16_ArchiveComplete ==
    archive.err = Nil =>
        /\ archive.root = archive.from
        /\ Count(Block(archive.from), archive.objs) = 1
        /\ \A i \in 1..Len(archive.objs) :
               /\ Count(archive.objs[i], archive.objs) = 1
               /\ \A c \in Links(archive.objs[i]) : Count(c, archive.objs) = 1

\* A successful export whose walk met two tipsets with the same messages.
C16_Witness ==
    /\ archive.err = Nil
    /\ \E j \in 1..archive.from, k \in 1..archive.from :
           j # k /\ MessagesOf(j) = MessagesOf(k)

(***************************************************************************)
(* Properties of chain randomness.                                         *)
(***************************************************************************)
\* C17: a sample from a known reference tipset uses the ticket of the
\* latest tipset, on the chain from the reference back to the genesis,
\* whose epoch is at most the target epoch.
C17_LatestAncestorTicket ==
    (last.op = "Sample" /\ Known(last.hd)) =>
        \A k \in 1..last.hd :
            (/\ epochs[k] <= last.epoch
             /\ \A j \in 1..last.hd : epochs[j] <= last.epoch => j <= k) =>
                last.out = [rand |-> [kind |-> "Randomness",
                                      ticket |-> Ticket(k),
                                      tag |-> last.tag,
                                      epoch |-> last.epoch,
                                      entropy |-> last.entropy],
                            err |-> Nil]

\* The target epoch lies strictly between the epochs of the reference
\* tipset and of an ancestor above the genesis, whose ticket is used.
C17_Witness ==
    /\ last.op = "Sample"
    /\ Known(last.hd)
    /\ last.out.err = Nil
    /\ \E b \in TipKeys :
           /\ 1 < b
           /\ b < last.hd
           /\ epochs[b] < last.epoch
           /\ last.epoch < epochs[last.hd]
           /\ last.out.rand.ticket = Ticket(b)

C20_IteratorAscending ==
    LET n == Len(iter.s)
    IN  /\ nexts < n =>
               /\ ~Complete(iter)
               /\ Cardinality({x \in Range(iter.s) :
                      cidLessLexicographic(x, Value(iter))}) = nexts
        /\ last.op = "Next" => (last.ret <=> nexts < n)
        /\ nexts >= n =>
               /\ Complete(iter)
               /\ Value(iter) = Nil
               /\ iter.i = n
        /\ last.op = "Iter" => iter.i = 0 /\ iter.s = s

(***************************************************************************)
(* Properties of values taken from the set.                                *)
(***************************************************************************)
\* The slice is the first cells of the array behind it.
SliceOfArray == s = SubSeq(mem.arr, 1, Len(s))

\* C24: an iterator, a ToSlice result or a copy of the set taken before an
\* Add, Remove or Clear keeps yielding the elements the set held when it was
\* taken.
C24_ValuesAreSnapshots ==
    mem.val.kind # "none" => Yields(mem) = mem.val.taken

\* The same for a ToSlice result alone.
ToSliceIsSnapshot ==
    mem.val.kind = "ToSlice" => Yields(mem) = mem.val.taken

(***************************************************************************)
(* Properties of GetActor and LsActors under concurrent SetHead calls.     *)
(***************************************************************************)
\* C23: GetActor and LsActors read the head once; every later step uses
\* that key, and the result is the one the whole lookup gives at that key,
\* whatever SetHead calls ran between the steps.
C23_OneHeadPerCall ==
    last.op \in {"GetActor", "LsActors"} =>
        /\ last.used \subseteq {last.key}
        /\ (last.op = "GetActor" /\ last.pc = "done") =>
               LET r == GetActorAt(stateTrees, bstore, actors, last.key,
                                   last.addr)
               IN  last.actor = r.actor /\ last.err = r.err
        /\ (last.op = "LsActors" /\ last.pc = "done") =>
               LET r == LsActors(stateTrees, actors, last.key)
               IN  last.out = r.out /\ last.err = r.err

\* A GetActor call has ended after the head moved to a tipset where the
\* same lookup gives another answer.
C23_Witness ==
    /\ last.op = "GetActor"
    /\ last.pc = "done"
    /\ head # last.key
    /\ Cardinality(last.used) = 1
    /\ LET r == GetActorAt(stateTrees, bstore, actors, head, last.addr)
       IN  last.actor # r.actor \/ last.err # r.err

(***************************************************************************)
(* Properties of the repository.                                           *)
(***************************************************************************)
\* C21: InitFSRepo succeeds only on a path that does not exist or is an
\* empty writable directory; on a directory that is not empty it returns an
\* error and leaves the directory as it was.
C21_InitOnlyInEmptyDirectory ==
    [][\A p \in Procs, cfg \in Configs, wv \in WriteResults,
          wc \in WriteResults :
           InitFSRepoCall(p, cfg, wv, wc) =>
               /\ repos'[p].err = Nil =>
                      \/ fs.dir = "absent"
                      \/ fs.dir = "dir" /\ fs.writable /\ isEmptyDir(fs)
               /\ (fs.dir = "dir" /\ ~isEmptyDir(fs)) =>
                      repos'[p].err # Nil /\ fs' = fs]_vars

\* InitFSRepo has refused the directory an earlier InitFSRepo made.
C21_Witness ==
    \E p \in Procs, q \in Procs :
        /\ repos[q].op = "Init"
        /\ repos[q].err = Nil
        /\ repos[p].op = "Init"
        /\ repos[p].err = ErrNonEmpty
        /\ fs.version = "current"
        /\ fs.config \in Configs

Open(p) == repos[p].pc = "open"

\* C22: at most one FSRepo is open at a time, and OpenFSRepo fails with the
\* lock error whenever it comes to take the lock while an FSRepo is open.
C22_OneOpenRepo ==
    /\ [](Cardinality({p \in Procs : Open(p)}) <= 1)
    /\ [][\A q \in Procs :
             (OpenFSRepoLock(q) /\ \E p \in Procs : Open(p)) =>
                 /\ repos'[q].pc = "done"
                 /\ repos'[q].err = Wrap(ErrLockHeld, ErrRepoLock)]_vars

\* OpenFSRepo has failed with the lock error while an FSRepo is open.
C22_Witness ==
    \E p \in Procs, q \in Procs :
        /\ Open(p)
        /\ repos[q].op = "Open"
        /\ repos[q].pc = "done"
        /\ repos[q].err = Wrap(ErrLockHeld, ErrRepoLock)

\* C25: an OpenFSRepo that returned an error holds neither the lock nor a
\* datastore.
C25_FailedOpenHoldsNothing ==
    \A p \in Procs :
        (repos[p].op = "Open" /\ repos[p].pc = "done" /\ repos[p].err # Nil)
            => (fs.lock # p /\ fs.ds # p)

\* C26: when Close returns, with or without an error, the lock is free and
\* the API file is gone.
C26_CloseReleases ==
    [][\A p \in Procs, dsOk \in BOOLEAN, rmOk \in BOOLEAN, lkOk \in BOOLEAN :
           CloseCall(p, dsOk, rmOk, lkOk) => (fs'.lock = Free /\ ~fs'.api)]_vars

\* C27: after ReplaceConfig without an error the FSRepo and the config
\* file hold the new config; after ReplaceConfig with an error both hold
\* what they held before.
C27_ReplaceConfigConsistent ==
    [][\A p \in Procs, cfg \in Configs, rmOk \in BOOLEAN,
          wr \in WriteResults, mvOk \in BOOLEAN :
           ReplaceConfigCall(p, cfg, rmOk, wr, mvOk) =>
               IF repos'[p].err = Nil
               THEN Config(repos'[p]) = cfg /\ fs'.config = cfg
               ELSE /\ Config(repos'[p]) = Config(repos[p])
                    /\ fs'.config = fs.config]_vars

\* The half of C27 that is about a call without an error: whenever the call
\* an open FSRepo made last is a ReplaceConfig without an error, the config
\* file holds the config in memory.
ReplaceConfigSuccess ==
    \A p \in Procs :
        (Open(p) /\ repos[p].op = "ReplaceConfig" /\ repos[p].err = Nil)
            => fs.config = Config(repos[p])
====
